---- MODULE Spec2Model ----
(***************************************************************************)
(* A model of the class-grouped dataset of fastestimator                   *)
(* (dataset/siamese_dir_dataset.py), of the split helper it is used with   *)
(* (dataset/fe_dataset.py) and of the retry loop of the Google-drive       *)
(* download helper (util/google_download_util.py).                         *)
(*                                                                         *)
(* A record of the dataset is [x |-> id, y |-> label]: x stands for the    *)
(* value stored under data_key_left (a file path, unique per instance) and *)
(* y for the value stored under label_key.  A data map is a function from  *)
(* a finite set of integer keys to records; a Python dict iterates in      *)
(* insertion order, which for every data map built here is ascending key   *)
(* order.  A Python set iterates in an unspecified order, so every walk    *)
(* over a class set takes an arbitrary enumeration of it.                  *)
(***************************************************************************)
EXTENDS Integers, Sequences, FiniteSets, TLC

\* ---- bounds of the model ------------------------------------------------
MaxN == 3          \* largest number of instances of a constructed dataset
MaxLabel == 2      \* labels are 1..MaxLabel
MaxDesc == 2       \* largest number of descriptors passed to split
MaxCount == 1      \* int descriptors are -NegCount..MaxCount
NegCount == 1
MaxRetries == 4    \* largest max_retries passed to the download helper

Labels == 1..MaxLabel

\* no generator of a slice walks more positions than the largest resolved count
MaxPositions == MaxN + MaxCount

\* ---- Python helpers -----------------------------------------------------
\* range(lo, hi) as a sequence (empty when hi <= lo)
PyRange(lo, hi) == [j \in 1..(IF hi > lo THEN hi - lo ELSE 0) |-> lo + j - 1]

\* range(hi, lo, -1) as a sequence (empty when hi <= lo)
PyRangeDown(hi, lo) == [j \in 1..(IF hi > lo THEN hi - lo ELSE 0) |-> hi - j + 1]

\* list[i] is defined for -len <= i < len; a negative i counts from the end
PyInRange(s, i) == (-Len(s) <= i) /\ (i < Len(s))

PyIndex(s, i) == IF i >= 0 THEN s[i + 1] ELSE s[Len(s) + i + 1]

\* sorted(S) for a finite set of integers
RECURSIVE Sorted(_)
Sorted(S) ==
  IF S = {} THEN <<>>
  ELSE LET m == CHOOSE x \in S : \A y \in S : x <= y IN <<m>> \o Sorted(S \ {m})

\* every enumeration of a finite set (list(a_set), for item in a_set)
RECURSIVE Enumerations(_)
Enumerations(S) ==
  IF S = {} THEN {<<>>}
  ELSE UNION {{<<x>> \o s : s \in Enumerations(S \ {x})} : x \in S}

\* random.sample(range(n), k) / np.random.choice(.., size=k, replace=False):
\* every sequence of k distinct elements of S
RECURSIVE Samples(_, _)
Samples(S, k) ==
  IF k <= 0 THEN {<<>>}
  ELSE UNION {{<<x>> \o s : s \in Samples(S \ {x}, k - 1)} : x \in S}

\* d.pop(k) on a data map
DictRemove(d, k) == [j \in (DOMAIN d) \ {k} |-> d[j]]

\* math.ceil(n * h/2); h/2 and n * h/2 are exact in binary floating point
CeilHalves(n, h) == (n * h + 1) \div 2

\* ---- descriptors of split -----------------------------------------------
\* the float descriptors tried, in halves: 0.5.  (1.0 and every larger float
\* fail the check of the fraction sum, as 0.5 + 0.5 does.)
Halves == {1}

\* a float descriptor h/2, an int descriptor c, a descriptor of another type
FloatDesc(h) == [kind |-> "float", v |-> h]
IntDesc(c) == [kind |-> "int", v |-> c]
OtherDesc == [kind |-> "other", v |-> 0]

Descriptors ==
  {FloatDesc(h) : h \in Halves} \cup {IntDesc(c) : c \in (0 - NegCount)..MaxCount} \cup {OtherDesc}

DescriptorLists == UNION {[1..n -> Descriptors] : n \in 0..MaxDesc}

split_types == {"random", "from_front", "from_back"}

Methods == split_types \cup {"from_middle"}

\* ---- SiameseDirDataset --------------------------------------------------
\* _data_to_class: label -> set of the keys whose record carries that label
data_to_class(d) ==
  [l \in {d[k].y : k \in DOMAIN d} |-> {k \in DOMAIN d : d[k].y = l}]

\* len(dataset): the number of instances of the data map
DatasetLen(d) == Cardinality(DOMAIN d)

\* _split_length: the number of classes.  FEDataset.split never calls it.
split_length(cd) == Cardinality(DOMAIN cd)

\* {new_idx: v for new_idx, (old_idx, v) in enumerate(self.data.items())}
Rekey(d) ==
  LET ks == Sorted(DOMAIN d) IN [i \in 0..(Len(ks) - 1) |-> d[ks[i + 1]]]

\* the dataset object _skip_init builds from a data map and its class index
skip_init(d, cd) == [data |-> d, class_data |-> cd]

NoError == "none"

\* [item for i in split for item in self.class_data[int_class_keys[i]]]
\* positions: the range the generator walks; indices: the index pool;
\* keys: sorted class labels; ord: the enumeration taken of each class set
RECURSIVE GatherItems(_, _, _, _)
GatherItems(positions, indices, keys, ord) ==
  IF positions = <<>> THEN [err |-> NoError, items |-> <<>>]
  ELSE LET i == Head(positions) IN
       IF ~PyInRange(indices, i) THEN [err |-> "IndexError", items |-> <<>>]
       ELSE LET c == PyIndex(indices, i) IN
            IF ~PyInRange(keys, c) THEN [err |-> "IndexError", items |-> <<>>]
            ELSE LET rest == GatherItems(Tail(positions), indices, keys, ord) IN
                 IF rest.err # NoError THEN rest
                 ELSE [err |-> NoError, items |-> ord[PyIndex(keys, c)] \o rest.items]

\* {new_idx: self.data.pop(old_idx) for new_idx, old_idx in enumerate(split)}
\* every pop that precedes a failing one has already changed self.data
RECURSIVE PopAll(_, _)
PopAll(d, items) ==
  IF items = <<>> THEN [err |-> NoError, data |-> d, taken |-> <<>>]
  ELSE IF Head(items) \notin DOMAIN d THEN [err |-> "KeyError", data |-> d, taken |-> <<>>]
  ELSE LET r == PopAll(DictRemove(d, Head(items)), Tail(items)) IN
       [err |-> r.err, data |-> r.data, taken |-> <<d[Head(items)]>> \o r.taken]

\* the loop of _do_split over the slices, then the re-keying of the source.
\* self.class_data is only rebuilt after the loop, so the class ordinals of
\* every slice refer to the class index of before the call.
RECURSIVE do_split(_, _, _, _, _, _)
do_split(d, cd, slices, indices, ord, out) ==
  IF slices = <<>>
  THEN [err |-> NoError, data |-> Rekey(d), class_data |-> data_to_class(Rekey(d)),
        results |-> out]
  ELSE LET g == GatherItems(Head(slices), indices, Sorted(DOMAIN cd), ord) IN
       IF g.err # NoError
       THEN [err |-> g.err, data |-> d, class_data |-> cd, results |-> <<>>]
       ELSE LET pp == PopAll(d, g.items) IN
            IF pp.err # NoError
            THEN [err |-> pp.err, data |-> pp.data, class_data |-> cd, results |-> <<>>]
            ELSE LET nd == [i \in 0..(Len(pp.taken) - 1) |-> pp.taken[i + 1]] IN
                 do_split(pp.data, cd, Tail(slices), indices, ord,
                          Append(out, skip_init(nd, data_to_class(nd))))

\* ---- FEDataset.split ----------------------------------------------------
\* the resolved count of one descriptor
Resolve(original_size, f) ==
  IF f.kind = "float" THEN CeilHalves(original_size, f.v) ELSE f.v

RECURSIVE SumSeq(_)
SumSeq(s) == IF s = <<>> THEN 0 ELSE Head(s) + SumSeq(Tail(s))

n_samples(original_size, fractions) ==
  [k \in 1..Len(fractions) |-> Resolve(original_size, fractions[k])]

\* frac_sum, in halves
frac_sum(fractions) ==
  SumSeq([k \in 1..Len(fractions) |-> IF fractions[k].kind = "float" THEN fractions[k].v ELSE 0])

\* the error the checks of split raise before an index is drawn, if any
Validate(original_size, fractions, method) ==
  IF Len(fractions) = 0 THEN "AssertionError"
  ELSE IF method \notin split_types THEN "AssertionError"
  ELSE IF \E k \in 1..Len(fractions) : fractions[k].kind = "other" THEN "ValueError"
  ELSE IF ~(frac_sum(fractions) < 2) THEN "AssertionError"
  ELSE IF ~(SumSeq(n_samples(original_size, fractions)) < original_size) THEN "AssertionError"
  ELSE IF method = "random" /\ SumSeq(n_samples(original_size, fractions)) < 0 THEN "ValueError"
  ELSE NoError

\* the index pools a method can draw
IndexPools(original_size, int_sum, method) ==
  IF method = "random" THEN Samples(0..(original_size - 1), int_sum)
  ELSE IF method = "from_front" THEN {PyRange(0, int_sum)}
  ELSE {PyRangeDown(original_size - 1, original_size - int_sum - 1)}

\* the ranges of the generators of the slices: range(start, start + stop)
RECURSIVE SliceRanges(_, _)
SliceRanges(start, counts) ==
  IF counts = <<>> THEN <<>>
  ELSE <<PyRange(start, start + Head(counts))>> \o SliceRanges(start + Head(counts), Tail(counts))

\* ---- __getitem__ --------------------------------------------------------
NoItem == [x_a |-> -1, x_b |-> -1, y |-> -1]

\* (a variant that forgets to take index out of the candidates)
MatchingCandidatesWithSelf(clazz_items, index) == clazz_items

\* clazz_items - {index}
MatchingCandidates(clazz_items, index) == clazz_items \ {index}

\* self.class_data.keys() - {base_item[self.label_key]}
OtherClasses(cd, label) == (DOMAIN cd) \ {label}

\* base_item = deepcopy(self.data[index]): the stored record is not aliased,
\* so the writes to base_item leave the data map as it was
StoredAfterGetItem(d, index, item) == d

\* base_item[data_key_right] = self.data[other][data_key_left]; base_item[label_key] = y
Pair(d, base, other, y) ==
  IF other \in DOMAIN d
  THEN [err |-> NoError, item |-> [x_a |-> base.x, x_b |-> d[other].x, y |-> y]]
  ELSE [err |-> "KeyError", item |-> NoItem]

\* every outcome of __getitem__(index); match: np.random.uniform(0, 1) < p.
\* np.random.choice raises ValueError on an empty list.
getitem(d, cd, index, match) ==
  IF index \notin DOMAIN d THEN {[err |-> "KeyError", item |-> NoItem]}
  ELSE LET base_item == d[index] IN
       IF match
       THEN IF base_item.y \notin DOMAIN cd THEN {[err |-> "KeyError", item |-> NoItem]}
            ELSE LET cands == MatchingCandidates(cd[base_item.y], index) IN
                 IF cands = {} THEN {[err |-> "ValueError", item |-> NoItem]}
                 ELSE {Pair(d, base_item, other, 1) : other \in cands}
       ELSE LET other_classes == OtherClasses(cd, base_item.y) IN
            IF other_classes = {} THEN {[err |-> "ValueError", item |-> NoItem]}
            ELSE UNION {IF cd[c] = {} THEN {[err |-> "ValueError", item |-> NoItem]}
                        ELSE {Pair(d, base_item, other, 0) : other \in cd[c]}
                        : c \in other_classes}

\* ---- one_shot_trial -----------------------------------------------------
\* the instances drawn for the classes after the first: one of each class
OtherPicks(cd, classes) ==
  {f \in [2..Len(classes) -> UNION {cd[l] : l \in DOMAIN cd}] :
     \A i \in 2..Len(classes) : f[i] \in cd[classes[i]]}

\* (a variant that draws the two instances with replacement)
BaseImageIndicesWithReplacement(clazz_items) ==
  IF clazz_items = {} THEN {} ELSE {<<a, b>> : a \in clazz_items, b \in clazz_items}

\* np.random.choice(list(self.class_data[classes[0]]), size=2, replace=False)
BaseImageIndices(clazz_items) ==
  IF Cardinality(clazz_items) < 2 THEN {} ELSE Samples(clazz_items, 2)

\* classes = np.random.choice(list(self.class_data.keys()), size=n, replace=False)
TrialClasses(cd, n) == Samples(DOMAIN cd, n)

NoTrial == [err |-> NoError, classes |-> <<>>, l1 |-> <<>>, l2 |-> <<>>]

\* l1 and l2 for one draw of classes, base pair and other instances; a lookup
\* of self.data with a key it does not hold raises KeyError
TrialLists(d, classes, base, picks) ==
  IF base[1] \notin DOMAIN d \/ base[2] \notin DOMAIN d
     \/ (\E i \in 2..Len(classes) : picks[i] \notin DOMAIN d)
  THEN [NoTrial EXCEPT !.err = "KeyError", !.classes = classes]
  ELSE [NoTrial EXCEPT !.classes = classes,
          !.l1 = [i \in 1..Len(classes) |-> d[base[1]].x],
          !.l2 = [i \in 1..Len(classes) |-> IF i = 1 THEN d[base[2]].x ELSE d[picks[i]].x]]

\* every outcome of one_shot_trial(n)
one_shot_trial(d, cd, n) ==
  IF ~(n > 1) \/ ~(n <= Cardinality(DOMAIN cd))
  THEN {[NoTrial EXCEPT !.err = "AssertionError"]}
  ELSE UNION {IF BaseImageIndices(cd[classes[1]]) = {}
              THEN {[NoTrial EXCEPT !.err = "ValueError", !.classes = classes]}
              ELSE {TrialLists(d, classes, base, picks) :
                      base \in BaseImageIndices(cd[classes[1]]), picks \in OtherPicks(cd, classes)}
              : classes \in TrialClasses(cd, n)}

\* ---- state --------------------------------------------------------------
VARIABLES
  data,        \* self.data of the source dataset
  class_data,  \* self.class_data of the source dataset
  results,     \* the datasets the latest split returned (<<>> when it raised)
  op,          \* the latest call, "ready" once the caller has moved on
  err,         \* the exception the latest call raised, or NoError
  args,        \* the arguments and the locals of the latest call
  ret,         \* what the latest __getitem__ or one_shot_trial returned
  pre,         \* data and class_data when the latest call started
  dl           \* the download helper: its locals and where it stands

vars == <<data, class_data, results, op, err, args, ret, pre, dl>>

NoArgs ==
  [fractions |-> <<>>, method |-> "", original_size |-> 0, indices |-> <<>>,
   slices |-> <<>>, handed |-> FALSE, index |-> 0, match |-> FALSE, n |-> 0,
   classes |-> <<>>]

NoRet == [item |-> NoItem, l1 |-> <<>>, l2 |-> <<>>]

DlIdle == [pc |-> "idle", max_retries |-> 0, attempts |-> 0, found |-> FALSE, log |-> <<>>]

\* the enumeration taken of each class set during one call
RECURSIVE OrdersOf(_, _)
OrdersOf(cd, labels) ==
  IF labels = {} THEN {<<>>}
  ELSE LET l == CHOOSE x \in labels : TRUE IN
       {(l :> e) @@ f : e \in Enumerations(cd[l]), f \in OrdersOf(cd, labels \ {l})}

\* the labels whose class set a call of _do_split can come to walk: those at
\* the ordinals found in the slices
WalkedLabels(cd, indices, slices) ==
  LET keys == Sorted(DOMAIN cd)
      ordinals == UNION {{PyIndex(indices, slices[k][j]) :
                            j \in {i \in 1..Len(slices[k]) : PyInRange(indices, slices[k][i])}}
                         : k \in 1..Len(slices)}
  IN {PyIndex(keys, c) : c \in {o \in ordinals : PyInRange(keys, o)}}

Orders(cd, indices, slices) == OrdersOf(cd, WalkedLabels(cd, indices, slices))

\* the data map of a directory scan of n files: keys 0..n-1, one label each
ScannedData(n, lab) == [k \in 0..(n - 1) |-> [x |-> k, y |-> lab[k]]]

\* the labels of a scan of n files.  The code only compares and sorts labels, so
\* a scan whose labels are {1, 3} behaves as the one whose labels are {1, 2}:
\* the label set of a scan is taken to be 1..k
ScanLabels(n) ==
  {lab \in [0..(n - 1) -> Labels] :
     \E k \in Labels : {lab[i] : i \in 0..(n - 1)} = 1..k}

\* __init__: self.data of the scan and self.class_data = _data_to_class(self.data)
InitDataset ==
  /\ \E n \in 1..MaxN : \E lab \in ScanLabels(n) :
       /\ data = ScannedData(n, lab)
       /\ class_data = data_to_class(ScannedData(n, lab))
       /\ pre = [data |-> ScannedData(n, lab), class_data |-> data_to_class(ScannedData(n, lab))]
  /\ results = <<>>
  /\ op = "ready"
  /\ err = NoError
  /\ args = NoArgs
  /\ ret = NoRet

Init == InitDataset /\ dl = DlIdle

\* dataset.split(*fractions, method=method)
Split ==
  /\ op = "ready"
  /\ \E fractions \in DescriptorLists, method \in Methods :
       LET original_size == DatasetLen(data)
           v == Validate(original_size, fractions, method)
           counts == n_samples(original_size, fractions)
       IN IF v # NoError
          THEN /\ err' = v
               /\ args' = [NoArgs EXCEPT !.fractions = fractions, !.method = method,
                                         !.original_size =
                                            IF Len(fractions) > 0 THEN original_size ELSE 0]
               /\ results' = <<>>
               /\ UNCHANGED <<data, class_data>>
          ELSE \E indices \in IndexPools(original_size, SumSeq(counts), method) :
               \E ord \in Orders(class_data, indices, SliceRanges(0, counts)) :
                 LET slices == SliceRanges(0, counts)
                     r == do_split(data, class_data, slices, indices, ord, <<>>)
                 IN /\ err' = r.err
                    /\ args' = [NoArgs EXCEPT !.fractions = fractions, !.method = method,
                                              !.original_size = original_size,
                                              !.indices = indices, !.slices = slices,
                                              !.handed = TRUE]
                    /\ results' = r.results
                    /\ data' = r.data
                    /\ class_data' = r.class_data
  /\ op' = "split"
  /\ pre' = [data |-> data, class_data |-> class_data]
  /\ UNCHANGED <<ret, dl>>

\* dataset[index]; match: the draw np.random.uniform(0, 1) < percent_matching_data,
\* which can go either way for the default of 0.5
GetItem ==
  /\ op = "ready"
  /\ \E index \in 0..(MaxN - 1), match \in BOOLEAN :
       /\ \E out \in getitem(data, class_data, index, match) :
            /\ err' = out.err
            /\ ret' = [NoRet EXCEPT !.item = out.item]
            /\ data' = IF out.err = NoError THEN StoredAfterGetItem(data, index, out.item)
                       ELSE data
       /\ args' = [NoArgs EXCEPT !.index = index, !.match = match]
  /\ op' = "getitem"
  /\ pre' = [data |-> data, class_data |-> class_data]
  /\ UNCHANGED <<class_data, results, dl>>

\* dataset.one_shot_trial(n)
OneShotTrial ==
  /\ op = "ready"
  /\ \E n \in 0..(MaxLabel + 1) :
       /\ \E out \in one_shot_trial(data, class_data, n) :
            /\ err' = out.err
            /\ ret' = [NoRet EXCEPT !.l1 = out.l1, !.l2 = out.l2]
            /\ args' = [NoArgs EXCEPT !.n = n, !.classes = out.classes]
  /\ op' = "one_shot_trial"
  /\ pre' = [data |-> data, class_data |-> class_data]
  /\ UNCHANGED <<data, class_data, results, dl>>

\* the caller has looked at the outcome of the latest call and goes on to the
\* next one; what the call returned is dropped
Continue ==
  /\ op # "ready"
  /\ op' = "ready"
  /\ err' = NoError
  /\ args' = NoArgs
  /\ ret' = NoRet
  /\ results' = <<>>
  /\ pre' = [data |-> data, class_data |-> class_data]
  /\ UNCHANGED <<data, class_data, dl>>

Next == Split \/ GetItem \/ OneShotTrial \/ Continue

Spec == Init /\ [][Next]_vars

\* ---- download_file_from_google_drive ------------------------------------
\* what one pass through the try block can do: _download_file_from_google_drive
\* or validate_file raises an Exception, validate_file returns False, or it
\* returns True
Outcomes == {"raised", "invalid", "valid"}

\* (a variant of the loop body that does not break out of the loop)
AfterAttemptNoBreak(d, outcome) ==
  IF outcome = "valid"
  THEN [d EXCEPT !.attempts = @ + 1, !.log = Append(@, outcome), !.found = TRUE]
  ELSE [d EXCEPT !.attempts = @ + 1, !.log = Append(@, outcome)]

\* one iteration of "for _ in range(max_retries)": the try block, its except
\* clause and the sleep.  A valid file sets found and breaks out of the loop;
\* the two other outcomes sleep and go on with the loop.
AfterAttempt(d, outcome) ==
  IF outcome = "valid"
  THEN [d EXCEPT !.attempts = @ + 1, !.log = Append(@, outcome), !.found = TRUE,
                 !.pc = "after_loop"]
  ELSE [d EXCEPT !.attempts = @ + 1, !.log = Append(@, outcome)]

\* "if not found: raise ValueError(..)", else the function returns None
AfterLoop(d) ==
  IF ~d.found THEN [d EXCEPT !.pc = "ValueError"] ELSE [d EXCEPT !.pc = "returned"]

\* the call: found = False and the loop is entered
InitDownload ==
  \E m \in 0..MaxRetries :
    dl = [pc |-> "loop", max_retries |-> m, attempts |-> 0, found |-> FALSE, log |-> <<>>]

InitDL ==
  /\ InitDownload
  /\ data = ScannedData(1, [k \in 0..0 |-> 1])
  /\ class_data = data_to_class(ScannedData(1, [k \in 0..0 |-> 1]))
  /\ pre = [data |-> ScannedData(1, [k \in 0..0 |-> 1]),
            class_data |-> data_to_class(ScannedData(1, [k \in 0..0 |-> 1]))]
  /\ results = <<>>
  /\ op = "ready"
  /\ err = NoError
  /\ args = NoArgs
  /\ ret = NoRet

dataset_vars == <<data, class_data, results, op, err, args, ret, pre>>

\* the loop takes its next value from range(max_retries) and runs the body
Attempt ==
  /\ dl.pc = "loop"
  /\ dl.attempts < dl.max_retries
  /\ \E outcome \in Outcomes : dl' = AfterAttempt(dl, outcome)
  /\ UNCHANGED dataset_vars

\* range(max_retries) is exhausted
LoopExhausted ==
  /\ dl.pc = "loop"
  /\ ~(dl.attempts < dl.max_retries)
  /\ dl' = [dl EXCEPT !.pc = "after_loop"]
  /\ UNCHANGED dataset_vars

\* the statement after the loop
Finish ==
  /\ dl.pc = "after_loop"
  /\ dl' = AfterLoop(dl)
  /\ UNCHANGED dataset_vars

NextDL == Attempt \/ LoopExhausted \/ Finish

\* every step of the helper is a step of one thread that nothing blocks
\* (the sleeps are finite), so a call that can take a step takes it
SpecDL == InitDL /\ [][NextDL]_vars /\ WF_vars(NextDL)

\* ---- the claims ---------------------------------------------------------
\* the source and the datasets the latest split returned
Datasets == <<skip_init(data, class_data)>> \o results

KeysContiguous(d) == DOMAIN d = 0..(Cardinality(DOMAIN d) - 1)

\* cd partitions the keys of d, and every set holds the keys of its label
ClassIndexPartitions(d, cd) ==
  /\ UNION {cd[l] : l \in DOMAIN cd} = DOMAIN d
  /\ \A l1, l2 \in DOMAIN cd : l1 # l2 => cd[l1] \cap cd[l2] = {}
  /\ \A l \in DOMAIN cd : \A k \in cd[l] : k \in DOMAIN d /\ d[k].y = l

\* the instances (by their left value) a data map holds, all or of one label
Ids(d) == {d[k].x : k \in DOMAIN d}

IdsOfLabel(d, l) == {d[k].x : k \in {j \in DOMAIN d : d[j].y = l}}

\* the number of keys of d that hold the instance x
Copies(d, x) == Cardinality({k \in DOMAIN d : d[k].x = x})

\* the keys of d are 0..len-1 and cd is its class index
WellFormed(d, cd) == KeysContiguous(d) /\ ClassIndexPartitions(d, cd)

\* no int descriptor is negative (the spec's descriptors are fractions and
\* non-negative counts)
NonNegative(fractions) ==
  \A k \in 1..Len(fractions) : fractions[k].kind = "int" => fractions[k].v >= 0

\* the latest call is a split, with descriptors that are no negative counts,
\* of a dataset that was well formed, as every constructed dataset is
SplitOfWellFormed ==
  op = "split" /\ NonNegative(args.fractions) /\ WellFormed(pre.data, pre.class_data)

\* C1: after a split call on a well-formed dataset (by induction: after any
\* sequence of them) the keys of the source's data map and of every dataset
\* the split returned are exactly 0..len-1.
C1_KeysContiguous ==
  SplitOfWellFormed => \A k \in 1..Len(Datasets) : KeysContiguous(Datasets[k].data)

\* C2: after a split call on a well-formed dataset (by induction: after
\* construction and after every split) the class index of the source and of
\* every returned dataset partitions the keys of its data map, each class set
\* holding exactly the keys of the records of its label.
C2_ClassIndexPartitions ==
  SplitOfWellFormed
  => \A k \in 1..Len(Datasets) :
       ClassIndexPartitions(Datasets[k].data, Datasets[k].class_data)

\* the descriptors are floats and non-negative ints that are valid for a
\* dataset of effective split length n: fraction sum < 1.0, count sum < n
ValidFor(n, fractions) ==
  /\ Len(fractions) > 0
  /\ \A k \in 1..Len(fractions) :
       fractions[k].kind = "float" \/ (fractions[k].kind = "int" /\ fractions[k].v >= 0)
  /\ frac_sum(fractions) < 2
  /\ SumSeq(n_samples(n, fractions)) < n

\* C3: a split with valid descriptors (fraction sum < 1.0) succeeds, returns
\* one dataset per descriptor whose size is ceil(fraction x length) or the
\* int, and shrinks the source by the total; sizes and length are counted in
\* the unit of the effective split length, classes for this dataset.
C3_SplitCounts ==
  (op = "split" /\ args.method \in split_types
     /\ ValidFor(split_length(pre.class_data), args.fractions))
  => /\ err = NoError
     /\ Len(results) = Len(args.fractions)
     /\ \A k \in 1..Len(results) :
          split_length(results[k].class_data)
            = Resolve(split_length(pre.class_data), args.fractions[k])
     /\ split_length(class_data)
          = split_length(pre.class_data)
              - SumSeq(n_samples(split_length(pre.class_data), args.fractions))

\* C4: a split call that raises leaves the data map and the class index of
\* the source as they were before the call.
C4_FailedSplitLeavesState ==
  (op = "split" /\ err # NoError) => (data = pre.data /\ class_data = pre.class_data)

\* the values the slices hand to _do_split: the pool entry of every position
\* of every generator that is inside the pool
SliceEntries ==
  {e \in {<<k, j>> : k \in 1..Len(args.slices), j \in 1..MaxPositions} :
     e[2] <= Len(args.slices[e[1]]) /\ PyInRange(args.indices, args.slices[e[1]][e[2]])}

SliceValue(e) == PyIndex(args.indices, args.slices[e[1]][e[2]])

\* C5: the length split uses is the effective split length, the number of
\* classes of the class-grouped dataset, so every index handed to _do_split is
\* a class ordinal in 0..numClasses-1.
C5_EffectiveSplitLength ==
  (op = "split" /\ args.handed)
  => /\ args.original_size = split_length(pre.class_data)
     /\ \A e \in SliceEntries : SliceValue(e) \in 0..(split_length(pre.class_data) - 1)

\* C6: after a split call on a well-formed dataset every label the source
\* held before it has all of its records in exactly one of the source and the
\* returned datasets, and none of them in another.
C6_WholeClasses ==
  SplitOfWellFormed
  => \A l \in {pre.data[k].y : k \in DOMAIN pre.data} :
       \E k \in 1..Len(Datasets) :
         /\ IdsOfLabel(pre.data, l) \subseteq Ids(Datasets[k].data)
         /\ \A m \in 1..Len(Datasets) :
              m # k => IdsOfLabel(pre.data, l) \cap Ids(Datasets[m].data) = {}

\* C7: in a split call on a well-formed dataset the index pool has no
\* duplicate and the slices handed to _do_split share no index, and after it
\* every record the source held before is in exactly one of the source and
\* the returned datasets, exactly once.
C7_NoRecordLostOrDuplicated ==
  SplitOfWellFormed
  => /\ \A i, j \in 1..Len(args.indices) : i # j => args.indices[i] # args.indices[j]
     /\ \A e, f \in SliceEntries : e # f => SliceValue(e) # SliceValue(f)
     /\ \A x \in Ids(pre.data) :
          \E k \in 1..Len(Datasets) :
            /\ Copies(Datasets[k].data, x) = 1
            /\ \A m \in 1..Len(Datasets) : m # k => Copies(Datasets[m].data, x) = 0

\* the label of the instance whose left value is x
LabelOfId(d, x) == d[CHOOSE k \in DOMAIN d : d[k].x = x].y

\* what one_shot_trial returned: two sequences of length n, the first n times
\* one instance, position 1 of the second another instance of its class,
\* and the classes of the positions of the second pairwise different
TrialResultSound ==
  /\ Len(ret.l1) = args.n /\ Len(ret.l2) = args.n
  /\ \A i \in 1..args.n : ret.l1[i] \in Ids(data) /\ ret.l2[i] \in Ids(data)
  /\ \A i \in 1..args.n : ret.l1[i] = ret.l1[1]
  /\ ret.l1[1] # ret.l2[1]
  /\ LabelOfId(data, ret.l1[1]) = LabelOfId(data, ret.l2[1])
  /\ \A i, j \in 1..args.n :
       i # j => LabelOfId(data, ret.l2[i]) # LabelOfId(data, ret.l2[j])

\* one_shot_trial(n) was called with n >= 2 the number of classes
TrialOnAllClasses ==
  op = "one_shot_trial" /\ args.n >= 2 /\ args.n = split_length(pre.class_data)

\* C8 as stated: one_shot_trial(n) on a dataset of exactly n >= 2 classes
\* returns, whatever the sizes of the classes, and what it returns is sound.
C8_OneShotAlwaysReturns ==
  TrialOnAllClasses => (err = NoError /\ TrialResultSound)

\* C8 as amended: one_shot_trial(n) on a dataset of exactly n >= 2 classes
\* leaves the dataset as it was; whenever it returns, what it returns is sound
\* and the class it drew first has at least two members; whenever the class it
\* drew first has fewer than two members it raises ValueError.
C8_OneShotTrial ==
  TrialOnAllClasses
  => /\ data = pre.data /\ class_data = pre.class_data
     /\ err = NoError
          => (TrialResultSound /\ Cardinality(class_data[args.classes[1]]) >= 2)
     /\ (args.classes # <<>> /\ Cardinality(class_data[args.classes[1]]) < 2)
          => err = "ValueError"

\* a trial on two classes returned, the class drawn second being another one
C8_Witness ==
  /\ TrialOnAllClasses /\ err = NoError
  /\ LabelOfId(data, ret.l2[2]) # LabelOfId(data, ret.l1[1])

\* the outcomes of the attempts made so far: none after a valid one
ValidOnlyLast(log) == \A i \in 1..Len(log) : log[i] = "valid" => i = Len(log)

SomeValid(log) == \E i \in 1..Len(log) : log[i] = "valid"

\* what holds of the helper at every moment
DownloadSafe ==
  /\ dl.attempts = Len(dl.log) /\ dl.attempts <= dl.max_retries
  /\ ValidOnlyLast(dl.log)
  /\ dl.found = SomeValid(dl.log)
  /\ dl.pc = "returned" => SomeValid(dl.log)
  /\ dl.pc = "ValueError" => (~SomeValid(dl.log) /\ dl.attempts = dl.max_retries)
  /\ (dl.pc = "loop" /\ dl.attempts < dl.max_retries) => ~SomeValid(dl.log)

\* C9: the helper makes at most max_retries attempts and none after the first
\* one that validates; it returns iff an attempt validated and raises
\* ValueError iff none did, and then only once all max_retries attempts are
\* made (none for max_retries = 0); no exception of an attempt ends the call
\* earlier; and the call always ends in one of these two ways.
C9_Download ==
  [](DownloadSafe) /\ <>(dl.pc \in {"returned", "ValueError"})

\* the call returned after an attempt that raised and one that validated
C9_Witness ==
  /\ dl.pc = "returned" /\ Len(dl.log) >= 2 /\ dl.log[1] = "raised"

\* C10: whenever __getitem__(index) returns, the stored records and the class
\* index are as before, the left item is the one of index, and the right item
\* is, for label 1, the left value of another instance of the class of index
\* and, for label 0, the left value of an instance of another class.
C10_GetItemConsistent ==
  (op = "getitem" /\ err = NoError)
  => /\ data = pre.data /\ class_data = pre.class_data
     /\ ret.item.x_a = data[args.index].x
     /\ ret.item.y \in {0, 1}
     /\ ret.item.y = 1
          => \E j \in DOMAIN data :
               j # args.index /\ data[j].x = ret.item.x_b /\ data[j].y = data[args.index].y
     /\ ret.item.y = 0
          => \E j \in DOMAIN data :
               data[j].x = ret.item.x_b /\ data[j].y # data[args.index].y

\* __getitem__ returned a matching pair
C10_Witness ==
  op = "getitem" /\ err = NoError /\ ret.item.y = 1 /\ ret.item.x_b # ret.item.x_a

\* the class of the instance index has exactly one member: by the records of
\* the data map, or by the entry of the class index
SingletonClass(d, cd, index) ==
  /\ index \in DOMAIN d
  /\ \/ Cardinality({j \in DOMAIN d : d[j].y = d[index].y}) = 1
     \/ (d[index].y \in DOMAIN cd /\ Cardinality(cd[d[index].y]) = 1)

\* __getitem__(index) took the matching branch for an instance that is alone
\* in its class
MatchingOnSingleton ==
  op = "getitem" /\ args.match /\ SingletonClass(pre.data, pre.class_data, args.index)

\* C11: when __getitem__(index) takes the matching branch for an index whose
\* class has exactly one member, the call ends in an error and returns no pair
\* (in particular not the instance paired with itself), and the data map and
\* the class index are as before the call; on a dataset whose class index
\* partitions its keys the error is the ValueError of np.random.choice on the
\* empty candidate list.
C11_SingletonMatchingFails ==
  MatchingOnSingleton
  => /\ err # NoError
     /\ ret.item = NoItem
     /\ ret.item.x_b # pre.data[args.index].x
     /\ data = pre.data /\ class_data = pre.class_data
     /\ WellFormed(pre.data, pre.class_data) => err = "ValueError"

\* the matching branch was taken for the only instance of a class of a dataset
\* that holds another class as well, and the draw of the partner raised
C11_Witness ==
  /\ MatchingOnSingleton /\ err = "ValueError"
  /\ WellFormed(pre.data, pre.class_data)
  /\ Cardinality(DOMAIN pre.class_data) >= 2

====
